---- MODULE Spec2Model ----
(***************************************************************************)
(* Verification model of parts of the TinyGo runtime and machine package:  *)
(*   - the timer queue and timerCallback      (src/src/runtime/time.go)    *)
(*   - tinygo_scanCurrentStack, tinygo_longjmp (src/src/runtime/asm_mipsx.S)*)
(*   - ADC one-shot sampling on rp2040/rp2350  (src/unnamed/part_000)      *)
(*   - package testing: M.Run, tRunner, T.Run   (src/unnamed/part_002)     *)
(*   - ReadTemperature                          (src/unnamed/part_000)     *)
(*   - handleUSBIRQ, handleUSBSetAddress        (src/unnamed/part_001)     *)
(*   - the cooperative scheduler                (spec section 4.2)         *)
(* Each subsystem has its own specification (SpecTimer, SpecAsm, SpecADC,  *)
(* SpecADCCores, SpecTest, SpecTemp, SpecUSB, SpecSched); the variables of *)
(* the other subsystems stay unchanged.                                    *)
(***************************************************************************)
EXTENDS Integers, Sequences, FiniteSets, TLC

VARIABLES
    \* ---- timer subsystem ----
    timers,      \* timer id -> [when, period]  (the *timer a timerNode points to)
    timerQueue,  \* the linked list timerQueue, as the sequence of its nodes
    now,         \* the monotonic tick counter, ticks()
    lastFire,    \* record of the most recent firing (NoFire when the last step was none)
    \* ---- MIPS machine running asm_mipsx.S ----
    reg,         \* register file
    mem,         \* stack memory, word address -> word
    cpuPC,       \* address of the next instruction
    branch,      \* {target} of a pending branch while its delay slot executes, else {}
    entry,       \* snapshot of reg, mem and the routine at the call
    scanArg,     \* what tinygo_scanstack was called with (NoScan before the call)
    \* ---- ADC sampling by goroutines ----
    scheduler,   \* "tasks" (cooperative, single core) or "cores" (goroutines in parallel)
    running,     \* cooperative scheduler: the task in state Running (0: none)
    runqueue,    \* cooperative scheduler: FIFO of Runnable tasks
    taskPC,      \* task -> position in its goroutine body / getOnce
    callsLeft,   \* task -> calls of getOnce still to make
    adcLock,     \* holder of the sync.Mutex adcLock (0: unlocked)
    lockWaiters, \* tasks parked in adcLock.Lock()
    adcCS,       \* the ADC CS register: [ainsel, ready, busy]
    adcResult,   \* the ADC RESULT register and the conversion that produced it
    convOwner,   \* the task whose START_ONCE started the conversion in progress
    ret,         \* task -> value returned by its last getOnce (NoRet before)
    \* ---- package testing ----
    flag,        \* the testing flags: [verbose, count, shuffle, skip]
    prog,        \* the test binary: [tests, env] (the tests and TestEnv's Setenv calls)
    tt,          \* the T values created so far; tt[1] is the root of runTests
    stack,       \* call stack of M.Run, top last
    stdout,      \* the lines written to os.Stdout
    env,         \* the process environment
    m,           \* the M: [tests, exitCode, code, ok, ran, bench]
    hist,        \* the statement just executed and the T.Run that just returned
    \* ---- ReadTemperature ----
    adcRaw,      \* the 12-bit sample the ADC returns for the temperature sensor
    temp,        \* what ReadTemperature returned (NoTemp before the call)
    \* ---- rp2040 USB interrupt handler ----
    usbPC,       \* position in handleUSBIRQ ("idle" outside the handler)
    usbStatus,   \* status: the interrupt bits read from INTS
    usbI,        \* the loop variable i of the endpoint loop executing
    usbIters,    \* iterations run by the OUT and the IN loop in this interrupt
    usbSetAddr,  \* handleUSBSetAddress: [timeout, polls, addressSet]
    usbEP0,      \* sendOnEP0DATADONE.offset, len(.data) and epXdata0[0]
    usbRegs,     \* ADDR_ENDP, SIE_STATUS and EPxBufferControl[0].In and .Out
    usbLog,      \* history: chunks queued by the last endpoint-0 send, the
                 \* setup request just handled, the branches of this interrupt
    \* ---- cooperative scheduler (spec section 4.2) ----
    taskState,   \* task -> "Unborn", "Runnable", "Running", "Parked" or "Dead"
    runq,        \* the FIFO of Runnable tasks
    schedLog     \* [enq, res]: tasks in the order made Runnable, and resumed

timerVars == <<timers, timerQueue, now, lastFire>>
asmVars   == <<reg, mem, cpuPC, branch, entry, scanArg>>
adcVars   == <<scheduler, running, runqueue, taskPC, callsLeft, adcLock,
               lockWaiters, adcCS, adcResult, convOwner, ret>>
testVars  == <<flag, prog, tt, stack, stdout, env, m, hist>>
\* The subsystems added to the first three, and each one's complement.
tempVars  == <<adcRaw, temp>>
usbVars   == <<usbPC, usbStatus, usbI, usbIters, usbSetAddr, usbEP0, usbRegs, usbLog>>
schedVars == <<taskState, runq, schedLog>>
extVars   == <<testVars, tempVars, usbVars, schedVars>>
notTest   == <<timerVars, asmVars, adcVars, tempVars, usbVars, schedVars>>
notTemp   == <<timerVars, asmVars, adcVars, testVars, usbVars, schedVars>>
notUsb    == <<timerVars, asmVars, adcVars, testVars, tempVars, schedVars>>
notSched  == <<timerVars, asmVars, adcVars, testVars, tempVars, usbVars>>
vars      == <<timerVars, asmVars, adcVars, extVars>>

(***************************************************************************)
(* int64 arithmetic.  Go's int64 wraps on overflow; the model keeps the    *)
(* wrap-around and scales the width down to TimeBits bits.                 *)
(***************************************************************************)
TimeBits == 11

MaxInt64 == 2^(TimeBits - 1) - 1

MinInt64 == -(2^(TimeBits - 1))

Wrap64(x) == ((x - MinInt64) % (2^TimeBits)) + MinInt64

\* Go's a + b on int64 (time.go:45, `+=`).
Add64(a, b) == Wrap64(a + b)

\* Nanoseconds per tick of the tick source.
NsPerTick == 2

\* Go's integer division truncates toward zero.
nanosecondsToTicks(ns) ==
    IF ns >= 0 THEN ns \div NsPerTick ELSE -((-ns) \div NsPerTick)

ticksToNanoseconds(t) == Wrap64(t * NsPerTick)

(***************************************************************************)
(* Timer queue (time.go)                                                   *)
(***************************************************************************)
NumTimers == 3

TimerIds == 1..NumTimers

\* A ticker period so long that deadline + period leaves the int64 range.
HugePeriod == MaxInt64 - 100

\* The [when, period] values (ns) the time package hands to the runtime.
\* Timers are interchangeable, so each id carries its own few values:
\* one-shots due at ticks 50, 10, 30, 50 (101 ns: the same tick as 100 ns)
\* and 150,
\* a period-100-tick ticker from 0 and a ticker with a huge period.
TimerKinds ==
    << {[when |-> 100, period |-> 0], [when |-> 200, period |-> 200]},
       {[when |-> 20, period |-> 0], [when |-> 200, period |-> HugePeriod]},
       {[when |-> 60, period |-> 0], [when |-> 101, period |-> 0],
        [when |-> 300, period |-> 0]} >>

KindsOf(tn) == TimerKinds[((tn - 1) % Len(TimerKinds)) + 1]

\* Tick values at which the clock is observed.
Instants == {10, 30, 50, 100, 115, 200, 250, 300}

\* A timer the queue does not hold is the time package's alone; the model
\* keeps no fields for it.
NoTimer == [when |-> 0, period |-> 0]

Forget(tmrs, q) ==
    [i \in TimerIds |-> IF \E k \in 1..Len(q) : q[k] = i THEN tmrs[i] ELSE NoTimer]

NoFire == [valid |-> FALSE]

\* timerNode.whenTicks (time.go:24-26)
whenTicks(tn, tmrs) == nanosecondsToTicks(tmrs[tn].when)

\* The position at which addTimer links a node: before the first node that
\* expires strictly later.
RECURSIVE insertPos(_, _, _, _)
insertPos(tn, tmrs, q, i) ==
    IF i > Len(q) THEN i
    ELSE IF whenTicks(tn, tmrs) < whenTicks(q[i], tmrs) THEN i
    ELSE insertPos(tn, tmrs, q, i + 1)

\* addTimer(node): converts the deadline to ticks and inserts in sorted position.
addTimer(tn, tmrs, q) ==
    LET i == insertPos(tn, tmrs, q, 1)
    IN  SubSeq(q, 1, i - 1) \o <<tn>> \o SubSeq(q, i, Len(q))

\* removeTimer(node): unlink by identity, no-op if the node is not queued.
removeTimer(tn, q) == SelectSeq(q, LAMBDA x : x # tn)

InQueue(tn, q) == \E i \in 1..Len(q) : q[i] = tn

\* Variants of timerCallback with a plausible slip each.
\* Re-arms relative to the time of firing (now + period) instead of the deadline.
timerCallbackDrift(tn, delta, tmrs, q) ==
    LET call == <<[op |-> "callCallback", arg |-> delta]>>
    IN  IF tmrs[tn].period # 0
        THEN LET t2 == [tmrs EXCEPT ![tn].when =
                            Add64(Add64(@, delta), tmrs[tn].period)]
             IN  [timers |-> t2,
                  queue  |-> addTimer(tn, t2, q),
                  events |-> call \o <<[op |-> "addTimer", arg |-> t2[tn].when]>>]
        ELSE [timers |-> tmrs, queue |-> q, events |-> call]

\* Re-adds every timer, periodic or not.
timerCallbackAlways(tn, delta, tmrs, q) ==
    LET call == <<[op |-> "callCallback", arg |-> delta]>>
        t2   == [tmrs EXCEPT ![tn].when = Add64(@, tmrs[tn].period)]
    IN  [timers |-> t2,
         queue  |-> addTimer(tn, t2, q),
         events |-> call \o <<[op |-> "addTimer", arg |-> t2[tn].when]>>]

\* Re-adds the node before advancing its deadline.
timerCallbackAddFirst(tn, delta, tmrs, q) ==
    LET call == <<[op |-> "callCallback", arg |-> delta]>>
    IN  IF tmrs[tn].period # 0
        THEN LET t2 == [tmrs EXCEPT ![tn].when = Add64(@, tmrs[tn].period)]
             IN  [timers |-> t2,
                  queue  |-> addTimer(tn, tmrs, q),
                  events |-> <<[op |-> "addTimer", arg |-> tmrs[tn].when]>> \o call]
        ELSE [timers |-> tmrs, queue |-> q, events |-> call]

\* timerCallback (time.go:37-48), applied to the timers and to the queue from
\* which the scheduler has popped tn.  events lists the calls it makes, in order.
timerCallback(tn, delta, tmrs, q) ==
    LET call == <<[op |-> "callCallback", arg |-> delta]>>
    IN  IF tmrs[tn].period # 0
        THEN LET t2 == [tmrs EXCEPT ![tn].when = Add64(@, tmrs[tn].period)]
             IN  [timers |-> t2,
                  queue  |-> addTimer(tn, t2, q),
                  events |-> call \o <<[op |-> "addTimer", arg |-> t2[tn].when]>>]
        ELSE [timers |-> tmrs, queue |-> q, events |-> call]

TimerInit ==
    /\ timers = [i \in TimerIds |-> NoTimer]
    /\ timerQueue = <<>>
    /\ now = 0
    /\ lastFire = NoFire

\* The time package starts a timer or ticker: sets when/period, calls addTimer.
AddTimer ==
    \E tn \in TimerIds :
      \E k \in KindsOf(tn) :
        /\ ~InQueue(tn, timerQueue)
        /\ timers' = [timers EXCEPT ![tn] = k]
        /\ timerQueue' = addTimer(tn, timers', timerQueue)
        /\ lastFire' = NoFire
        /\ UNCHANGED <<now, asmVars, adcVars, extVars>>

\* The time package stops a timer.
RemoveTimer ==
    \E tn \in TimerIds :
        /\ InQueue(tn, timerQueue)
        /\ timerQueue' = removeTimer(tn, timerQueue)
        /\ timers' = Forget(timers, timerQueue')
        /\ lastFire' = NoFire
        /\ UNCHANGED <<now, asmVars, adcVars, extVars>>

\* The monotonic clock has advanced when it is next read.
Tick ==
    \E t \in Instants :
        /\ t > now
        /\ now' = t
        /\ lastFire' = NoFire
        /\ UNCHANGED <<timers, timerQueue, asmVars, adcVars, extVars>>

\* The scheduler finds the head expired: pops it and invokes its callback with
\* delta = now - when.
FireTimer ==
    /\ timerQueue # <<>>
    /\ whenTicks(Head(timerQueue), timers) <= now
    /\ LET tn    == Head(timerQueue)
           delta == ticksToNanoseconds(now - whenTicks(tn, timers))
           r     == timerCallback(tn, delta, timers, Tail(timerQueue))
       IN  /\ timers' = Forget(r.timers, r.queue)
           /\ timerQueue' = r.queue
           /\ lastFire' = [valid      |-> TRUE,
                           id         |-> tn,
                           now        |-> now,
                           delta      |-> delta,
                           period     |-> timers[tn].period,
                           whenBefore |-> timers[tn].when,
                           whenAfter  |-> r.timers[tn].when,
                           headWasMin |-> \A i \in 1..Len(timerQueue) :
                                             whenTicks(tn, timers)
                                                 <= whenTicks(timerQueue[i], timers),
                           events     |-> r.events]
    /\ UNCHANGED <<now, asmVars, adcVars, extVars>>

TimerNext == AddTimer \/ RemoveTimer \/ Tick \/ FireTimer

(***************************************************************************)
(* MIPS o32 machine executing asm_mipsx.S.  One action per opcode; a jump  *)
(* takes effect after the instruction in its delay slot (.set noreorder).  *)
(***************************************************************************)
\* Addresses of the routines' first instructions.
ScanBase == 1000

LongjmpBase == 2000

\* Entry of the external Go function tinygo_scanstack.
ScanstackEntry == 3000

\* Number of words of stack memory in the model.
MemWords == 36

Addrs == {4 * i : i \in 0..(MemWords - 1)}

CalleeSaved == {"s0", "s1", "s2", "s3", "s4", "s5", "s6", "s7", "s8"}

Regs == CalleeSaved \cup {"sp", "ra", "a0", "a1"}

\* Inputs of a call: stack pointers, return addresses of the caller, defer
\* frame addresses, and the (jumpSP, jumpPC) pairs stored in a defer frame.
StackPointers == {108, 128}

ReturnAddrs == {5000, 5008}

FrameAddrs == {8, 24}

JumpSPs == {64, 112}

JumpPCs == {6000, 6100}

\* tinygo_scanCurrentStack without the push of $s8.
scanCurrentStackNoS8 ==
    << [op |-> "addiu", rt |-> "sp", rs |-> "sp", imm |-> -40],
       [op |-> "sw", rt |-> "ra", off |-> 36, base |-> "sp"],
       [op |-> "nop"],
       [op |-> "sw", rt |-> "s7", off |-> 28, base |-> "sp"],
       [op |-> "sw", rt |-> "s6", off |-> 24, base |-> "sp"],
       [op |-> "sw", rt |-> "s5", off |-> 20, base |-> "sp"],
       [op |-> "sw", rt |-> "s4", off |-> 16, base |-> "sp"],
       [op |-> "sw", rt |-> "s3", off |-> 12, base |-> "sp"],
       [op |-> "sw", rt |-> "s2", off |-> 8, base |-> "sp"],
       [op |-> "sw", rt |-> "s1", off |-> 4, base |-> "sp"],
       [op |-> "sw", rt |-> "s0", off |-> 0, base |-> "sp"],
       [op |-> "jal", target |-> ScanstackEntry],
       [op |-> "move", rd |-> "a0", rs |-> "sp"],
       [op |-> "lw", rt |-> "ra", off |-> 36, base |-> "sp"],
       [op |-> "addiu", rt |-> "sp", rs |-> "sp", imm |-> 40],
       [op |-> "jalr", rs |-> "ra"],
       [op |-> "nop"] >>

\* tinygo_scanCurrentStack (asm_mipsx.S:8-34), one record per instruction.
scanCurrentStackCode ==
    << [op |-> "addiu", rt |-> "sp", rs |-> "sp", imm |-> -40],
       [op |-> "sw", rt |-> "ra", off |-> 36, base |-> "sp"],
       [op |-> "sw", rt |-> "s8", off |-> 32, base |-> "sp"],
       [op |-> "sw", rt |-> "s7", off |-> 28, base |-> "sp"],
       [op |-> "sw", rt |-> "s6", off |-> 24, base |-> "sp"],
       [op |-> "sw", rt |-> "s5", off |-> 20, base |-> "sp"],
       [op |-> "sw", rt |-> "s4", off |-> 16, base |-> "sp"],
       [op |-> "sw", rt |-> "s3", off |-> 12, base |-> "sp"],
       [op |-> "sw", rt |-> "s2", off |-> 8, base |-> "sp"],
       [op |-> "sw", rt |-> "s1", off |-> 4, base |-> "sp"],
       [op |-> "sw", rt |-> "s0", off |-> 0, base |-> "sp"],
       [op |-> "jal", target |-> ScanstackEntry],
       [op |-> "move", rd |-> "a0", rs |-> "sp"],
       [op |-> "lw", rt |-> "ra", off |-> 36, base |-> "sp"],
       [op |-> "addiu", rt |-> "sp", rs |-> "sp", imm |-> 40],
       [op |-> "jalr", rs |-> "ra"],
       [op |-> "nop"] >>

\* tinygo_longjmp with the two frame offsets exchanged.
longjmpSwapped ==
    << [op |-> "lw", rt |-> "sp", off |-> 4, base |-> "a0"],
       [op |-> "lw", rt |-> "a1", off |-> 0, base |-> "a0"],
       [op |-> "jr", rs |-> "a1"],
       [op |-> "nop"] >>

\* tinygo_longjmp (asm_mipsx.S:38-44).
longjmpCode ==
    << [op |-> "lw", rt |-> "sp", off |-> 0, base |-> "a0"],
       [op |-> "lw", rt |-> "a1", off |-> 4, base |-> "a0"],
       [op |-> "jr", rs |-> "a1"],
       [op |-> "nop"] >>

InScan(a) == a >= ScanBase /\ a < ScanBase + 4 * Len(scanCurrentStackCode)

InLongjmp(a) == a >= LongjmpBase /\ a < LongjmpBase + 4 * Len(longjmpCode)

\* The instruction at address a.
InstrAt(a) ==
    IF InScan(a) THEN scanCurrentStackCode[(a - ScanBase) \div 4 + 1]
    ELSE IF InLongjmp(a) THEN longjmpCode[(a - LongjmpBase) \div 4 + 1]
    ELSE [op |-> "none"]

Op(o) == InstrAt(cpuPC).op = o

\* After an instruction: fall through, or take the branch whose delay slot it filled.
AdvancePC ==
    IF branch # {}
    THEN /\ cpuPC' \in branch
         /\ branch' = {}
    ELSE /\ cpuPC' = cpuPC + 4
         /\ UNCHANGED branch

ExecAddiu ==
    /\ Op("addiu")
    /\ LET i == InstrAt(cpuPC)
       IN  reg' = [reg EXCEPT ![i.rt] = reg[i.rs] + i.imm]
    /\ AdvancePC
    /\ UNCHANGED <<mem, entry, scanArg>>
    /\ UNCHANGED <<timerVars, adcVars, extVars>>

ExecSw ==
    /\ Op("sw")
    /\ LET i == InstrAt(cpuPC)
       IN  /\ reg[i.base] + i.off \in Addrs
           /\ mem' = [mem EXCEPT ![reg[i.base] + i.off] = reg[i.rt]]
    /\ AdvancePC
    /\ UNCHANGED <<reg, entry, scanArg>>
    /\ UNCHANGED <<timerVars, adcVars, extVars>>

ExecLw ==
    /\ Op("lw")
    /\ LET i == InstrAt(cpuPC)
       IN  /\ reg[i.base] + i.off \in Addrs
           /\ reg' = [reg EXCEPT ![i.rt] = mem[reg[i.base] + i.off]]
    /\ AdvancePC
    /\ UNCHANGED <<mem, entry, scanArg>>
    /\ UNCHANGED <<timerVars, adcVars, extVars>>

ExecMove ==
    /\ Op("move")
    /\ LET i == InstrAt(cpuPC)
       IN  reg' = [reg EXCEPT ![i.rd] = reg[i.rs]]
    /\ AdvancePC
    /\ UNCHANGED <<mem, entry, scanArg>>
    /\ UNCHANGED <<timerVars, adcVars, extVars>>

ExecNop ==
    /\ Op("nop")
    /\ AdvancePC
    /\ UNCHANGED <<reg, mem, entry, scanArg>>
    /\ UNCHANGED <<timerVars, adcVars, extVars>>

\* jal target: $ra := address after the delay slot; jump after the delay slot.
ExecJal ==
    /\ Op("jal")
    /\ reg' = [reg EXCEPT !["ra"] = cpuPC + 8]
    /\ branch' = {InstrAt(cpuPC).target}
    /\ cpuPC' = cpuPC + 4
    /\ UNCHANGED <<mem, entry, scanArg>>
    /\ UNCHANGED <<timerVars, adcVars, extVars>>

\* jr rs: jump to the address in rs after the delay slot.
ExecJr ==
    /\ Op("jr")
    /\ branch' = {reg[InstrAt(cpuPC).rs]}
    /\ cpuPC' = cpuPC + 4
    /\ UNCHANGED <<reg, mem, entry, scanArg>>
    /\ UNCHANGED <<timerVars, adcVars, extVars>>

\* jalr rs (rd = $ra implied): $ra := address after the delay slot, jump to rs.
\* With rs = rd the MIPS32 architecture leaves the result UNPREDICTABLE (the
\* instruction cannot be re-executed after an exception in its delay slot):
\* the target is the old value of rs, or the link value just written.
ExecJalr ==
    /\ Op("jalr")
    /\ LET rs == InstrAt(cpuPC).rs
       IN  /\ reg' = [reg EXCEPT !["ra"] = cpuPC + 8]
           /\ \E t \in (IF rs = "ra" THEN {reg[rs], cpuPC + 8} ELSE {reg[rs]}) :
                  branch' = {t}
    /\ cpuPC' = cpuPC + 4
    /\ UNCHANGED <<mem, entry, scanArg>>
    /\ UNCHANGED <<timerVars, adcVars, extVars>>

\* tinygo_scanstack(sp), an o32 callee: it may clobber $a0/$a1 and the stack
\* below its $sp, preserves $s0-$s8 and $sp, and returns to $ra.
ScanStack ==
    /\ cpuPC = ScanstackEntry
    /\ scanArg' = [lo |-> reg["a0"]]
    /\ \E v \in {0, 77}, below \in {0, 4} :
          /\ reg' = [reg EXCEPT !["a0"] = v, !["a1"] = v]
          /\ mem' = IF below > 0 /\ reg["sp"] - below \in Addrs
                    THEN [mem EXCEPT ![reg["sp"] - below] = 77]
                    ELSE mem
    /\ cpuPC' = reg["ra"]
    /\ UNCHANGED <<branch, entry>>
    /\ UNCHANGED <<timerVars, adcVars, extVars>>

NoScan == [lo |-> 0 - 1]

Canary(k, r) ==
    100 * k + (CHOOSE i \in 0..8 : r = <<"s0", "s1", "s2", "s3", "s4", "s5",
                                          "s6", "s7", "s8">>[i + 1])

\* A caller has just executed `jal tinygo_scanCurrentStack`.
AsmInitScan ==
    \E sp \in StackPointers, ra \in ReturnAddrs, k \in {1, 2}, a \in {0, 7} :
        /\ reg = [r \in Regs |->
                    IF r = "sp" THEN sp
                    ELSE IF r = "ra" THEN ra
                    ELSE IF r \in CalleeSaved THEN Canary(k, r)
                    ELSE a]
        /\ mem = [x \in Addrs |-> 0]
        /\ cpuPC = ScanBase
        /\ entry = [routine |-> "scanCurrentStack", reg |-> reg, mem |-> mem]

\* A caller has just executed `jal tinygo_longjmp` with $a0 = defer frame.
AsmInitLongjmp ==
    \E sp \in StackPointers, ra \in ReturnAddrs, f \in FrameAddrs,
       jsp \in JumpSPs, jpc \in JumpPCs, k \in {1, 2} :
        /\ reg = [r \in Regs |->
                    IF r = "sp" THEN sp
                    ELSE IF r = "ra" THEN ra
                    ELSE IF r \in CalleeSaved THEN Canary(k, r)
                    ELSE IF r = "a0" THEN f
                    ELSE 0]
        /\ mem = [x \in Addrs |-> IF x = f THEN jsp ELSE IF x = f + 4 THEN jpc ELSE 0]
        /\ cpuPC = LongjmpBase
        /\ entry = [routine |-> "longjmp", reg |-> reg, mem |-> mem]

AsmInit ==
    /\ AsmInitScan \/ AsmInitLongjmp
    /\ branch = {}
    /\ scanArg = NoScan

AsmIdle ==
    /\ reg = [r \in Regs |-> 0]
    /\ mem = [x \in Addrs |-> 0]
    /\ cpuPC = 0
    /\ branch = {}
    /\ entry = [routine |-> "none", reg |-> reg, mem |-> mem]
    /\ scanArg = NoScan

AsmNext ==
    \/ ExecAddiu \/ ExecSw \/ ExecLw \/ ExecMove \/ ExecNop
    \/ ExecJal \/ ExecJr \/ ExecJalr \/ ScanStack

\* Control has left the routine that was called.
Left == branch = {} /\ ~InScan(cpuPC) /\ ~InLongjmp(cpuPC) /\ cpuPC # ScanstackEntry

(***************************************************************************)
(* ADC one-shot sampling (part_000) by goroutines.  A goroutine calls      *)
(* getOnce on its own channel MaxCalls times, calling Gosched in between.  *)
(* scheduler = "tasks": cooperative, one task Running, switches only at    *)
(* suspension points.  scheduler = "cores": goroutines run in parallel.    *)
(***************************************************************************)
NumTasks == 2

MaxCalls == 2

Tasks == 1..NumTasks

\* The ADC mux channel task t samples (different tasks, different channels).
ChannelOf(t) == t - 1

\* The 12-bit conversion result the hardware produces for a channel.
Sample12(c) == 1000 + 100 * c

NoRet == [valid |-> FALSE]

MayRun(t) == scheduler = "cores" \/ running = t

\* The cooperative scheduler leaves the current task and resumes the next
\* Runnable one of queue rq (FIFO); none Running when rq is empty.
SwitchTo(rq) ==
    /\ running' = IF rq = <<>> THEN 0 ELSE Head(rq)
    /\ runqueue' = IF rq = <<>> THEN <<>> ELSE Tail(rq)

\* runLoop: with no task Running, resume the next Runnable task.
Resume ==
    /\ scheduler = "tasks"
    /\ running = 0
    /\ runqueue # <<>>
    /\ SwitchTo(runqueue)
    /\ UNCHANGED <<scheduler, taskPC, callsLeft, adcLock, lockWaiters, adcCS,
                   adcResult, convOwner, ret>>
    /\ UNCHANGED <<timerVars, asmVars, extVars>>

\* adcLock.Lock() (part_000:75).  A contended Lock suspends the caller.
Lock(t) ==
    /\ MayRun(t)
    /\ taskPC[t] = "lock"
    /\ IF adcLock = 0
       THEN /\ adcLock' = t
            /\ taskPC' = [taskPC EXCEPT ![t] = "select"]
            /\ UNCHANGED <<running, runqueue, lockWaiters>>
       ELSE /\ scheduler = "tasks"
            /\ lockWaiters' = Append(lockWaiters, t)
            /\ taskPC' = [taskPC EXCEPT ![t] = "parked"]
            /\ SwitchTo(runqueue)
            /\ UNCHANGED adcLock
    /\ UNCHANGED <<scheduler, callsLeft, adcCS, adcResult, convOwner, ret>>
    /\ UNCHANGED <<timerVars, asmVars, extVars>>

\* rp.ADC.CS.ReplaceBits(uint32(c), 0b111, AINSEL_Pos) (part_000:76)
SelectChannel(t) ==
    /\ MayRun(t)
    /\ taskPC[t] = "select"
    /\ adcCS' = [adcCS EXCEPT !.ainsel = ChannelOf(t) % 8]
    /\ taskPC' = [taskPC EXCEPT ![t] = "start"]
    /\ UNCHANGED <<scheduler, running, runqueue, callsLeft, adcLock, lockWaiters,
                   adcResult, convOwner, ret>>
    /\ UNCHANGED <<timerVars, asmVars, extVars>>

\* rp.ADC.CS.SetBits(START_ONCE) (part_000:77): the ADC starts one conversion
\* of the selected channel and drops READY until it is complete.
StartOnce(t) ==
    /\ MayRun(t)
    /\ taskPC[t] = "start"
    /\ adcCS' = [adcCS EXCEPT !.ready = FALSE, !.busy = TRUE]
    /\ convOwner' = t
    /\ taskPC' = [taskPC EXCEPT ![t] = "wait"]
    /\ UNCHANGED <<scheduler, running, runqueue, callsLeft, adcLock, lockWaiters,
                   adcResult, ret>>
    /\ UNCHANGED <<timerVars, asmVars, extVars>>

\* Hardware: the conversion completes; RESULT holds the sample of the channel
\* selected, READY is set.
ConvDone ==
    /\ adcCS.busy
    /\ adcResult' = [value |-> Sample12(adcCS.ainsel), chan |-> adcCS.ainsel,
                     owner |-> convOwner]
    /\ adcCS' = [adcCS EXCEPT !.ready = TRUE, !.busy = FALSE]
    /\ UNCHANGED <<scheduler, running, runqueue, taskPC, callsLeft, adcLock,
                   lockWaiters, convOwner, ret>>
    /\ UNCHANGED <<timerVars, asmVars, extVars>>

\* A waitForReady that lets other goroutines run while the ADC is busy.
waitForReadyYield(t) ==
    /\ MayRun(t)
    /\ taskPC[t] = "wait"
    /\ IF adcCS.ready
       THEN /\ taskPC' = [taskPC EXCEPT ![t] = "unlock"]
            /\ UNCHANGED <<running, runqueue>>
       ELSE /\ UNCHANGED taskPC
            /\ IF scheduler = "tasks"
               THEN SwitchTo(Append(runqueue, t))
               ELSE UNCHANGED <<running, runqueue>>
    /\ UNCHANGED <<scheduler, callsLeft, adcLock, lockWaiters, adcCS, adcResult,
                   convOwner, ret>>
    /\ UNCHANGED <<timerVars, asmVars, extVars>>

\* waitForReady (part_000:106-109): spins on CS.READY, an empty loop body.
waitForReady(t) ==
    /\ MayRun(t)
    /\ taskPC[t] = "wait"
    /\ IF adcCS.ready
       THEN taskPC' = [taskPC EXCEPT ![t] = "unlock"]
       ELSE UNCHANGED taskPC
    /\ UNCHANGED <<scheduler, running, runqueue, callsLeft, adcLock, lockWaiters,
                   adcCS, adcResult, convOwner, ret>>
    /\ UNCHANGED <<timerVars, asmVars, extVars>>

\* adcLock.Unlock() (part_000:80): releases the mutex and makes the first
\* waiter Runnable; the caller keeps running.
Unlock(t) ==
    /\ MayRun(t)
    /\ taskPC[t] = "unlock"
    /\ adcLock' = 0
    /\ IF lockWaiters # <<>>
       THEN /\ lockWaiters' = Tail(lockWaiters)
            /\ runqueue' = Append(runqueue, Head(lockWaiters))
            /\ taskPC' = [taskPC EXCEPT ![t] = "read", ![Head(lockWaiters)] = "lock"]
       ELSE /\ taskPC' = [taskPC EXCEPT ![t] = "read"]
            /\ UNCHANGED <<lockWaiters, runqueue>>
    /\ UNCHANGED <<scheduler, running, callsLeft, adcCS, adcResult, convOwner, ret>>
    /\ UNCHANGED <<timerVars, asmVars, extVars>>

\* return uint16(rp.ADC.RESULT.Get()) << 4 (part_000:83)
ReadResult(t) ==
    /\ MayRun(t)
    /\ taskPC[t] = "read"
    /\ ret' = [ret EXCEPT ![t] = [valid |-> TRUE,
                                  value |-> ((adcResult.value % 65536) * 16) % 65536,
                                  chan  |-> adcResult.chan,
                                  owner |-> adcResult.owner]]
    /\ callsLeft' = [callsLeft EXCEPT ![t] = @ - 1]
    /\ taskPC' = [taskPC EXCEPT ![t] = "returned"]
    /\ UNCHANGED <<scheduler, running, runqueue, adcLock, lockWaiters, adcCS,
                   adcResult, convOwner>>
    /\ UNCHANGED <<timerVars, asmVars, extVars>>

\* The goroutine calls getOnce again without giving up the processor.
CallAgain(t) ==
    /\ MayRun(t)
    /\ taskPC[t] = "returned"
    /\ callsLeft[t] > 0
    /\ taskPC' = [taskPC EXCEPT ![t] = "lock"]
    /\ UNCHANGED <<scheduler, running, runqueue, callsLeft, adcLock, lockWaiters,
                   adcCS, adcResult, convOwner, ret>>
    /\ UNCHANGED <<timerVars, asmVars, extVars>>

\* yield(): the goroutine gives up the processor between two samples.
Gosched(t) ==
    /\ MayRun(t)
    /\ taskPC[t] = "returned"
    /\ callsLeft[t] > 0
    /\ taskPC' = [taskPC EXCEPT ![t] = "lock"]
    /\ IF scheduler = "tasks"
       THEN SwitchTo(Append(runqueue, t))
       ELSE UNCHANGED <<running, runqueue>>
    /\ UNCHANGED <<scheduler, callsLeft, adcLock, lockWaiters, adcCS, adcResult,
                   convOwner, ret>>
    /\ UNCHANGED <<timerVars, asmVars, extVars>>

\* The goroutine's function returns: the task is Dead.
TaskExit(t) ==
    /\ MayRun(t)
    /\ taskPC[t] = "returned"
    /\ taskPC' = [taskPC EXCEPT ![t] = "dead"]
    /\ IF scheduler = "tasks"
       THEN SwitchTo(runqueue)
       ELSE UNCHANGED <<running, runqueue>>
    /\ UNCHANGED <<scheduler, callsLeft, adcLock, lockWaiters, adcCS, adcResult,
                   convOwner, ret>>
    /\ UNCHANGED <<timerVars, asmVars, extVars>>

\* After InitADC: ADC enabled and ready; the goroutines are spawned Runnable,
\* in any order.
ADCInitWith(s) ==
    /\ scheduler = s
    /\ running = 0
    /\ IF s = "tasks"
       THEN runqueue \in {q \in [Tasks -> Tasks] : \A t \in Tasks : \E i \in Tasks : q[i] = t}
       ELSE runqueue = <<>>
    /\ taskPC = [t \in Tasks |-> "lock"]
    /\ callsLeft = [t \in Tasks |-> MaxCalls]
    /\ adcLock = 0
    /\ lockWaiters = <<>>
    /\ adcCS = [ainsel |-> 0, ready |-> TRUE, busy |-> FALSE]
    /\ adcResult = [value |-> 0, chan |-> 0, owner |-> 0]
    /\ convOwner = 0
    /\ ret = [t \in Tasks |-> NoRet]

ADCIdle ==
    /\ scheduler = "none"
    /\ running = 0
    /\ runqueue = <<>>
    /\ taskPC = [t \in Tasks |-> "dead"]
    /\ callsLeft = [t \in Tasks |-> 0]
    /\ adcLock = 0
    /\ lockWaiters = <<>>
    /\ adcCS = [ainsel |-> 0, ready |-> TRUE, busy |-> FALSE]
    /\ adcResult = [value |-> 0, chan |-> 0, owner |-> 0]
    /\ convOwner = 0
    /\ ret = [t \in Tasks |-> NoRet]

TaskStep(t) ==
    \/ Lock(t) \/ SelectChannel(t) \/ StartOnce(t) \/ waitForReady(t)
    \/ Unlock(t) \/ ReadResult(t) \/ CallAgain(t) \/ Gosched(t) \/ TaskExit(t)

ADCNext == ConvDone \/ Resume \/ \E t \in Tasks : TaskStep(t)

ADCCoresNext == ConvDone \/ \E t \in Tasks : TaskStep(t)

(***************************************************************************)
(* Package testing (src/unnamed/part_002).  M.Run, runTests, tRunner,      *)
(* T.Run, report and runCleanup are executed one call or statement at a    *)
(* time on an explicit call stack; test functions are data.                *)
(***************************************************************************)
\* Longest list of tests handed to M.
MaxTests == 2

\* Largest -test.count value.
MaxCount == 2

\* Most Setenv calls in the body of TestEnv.
MaxSetenv == 2

\* A statement of a test or cleanup function.
S(op, arg, val) == [op |-> op, arg |-> arg, val |-> val]

\* A function registered with Cleanup.
CleanupFn(f, key, value) == [f |-> f, key |-> key, value |-> value]

\* Environment: key -> [ok, value], as os.LookupEnv reports it.
EnvKeys == {"K1", "K2", ""}

EnvValues == {"a", "b"}

Unset == [ok |-> FALSE, value |-> ""]

EnvSet(v) == [ok |-> TRUE, value |-> v]

LookupEnv(e, key) == e[key]

\* os.Setenv fails on an empty key (EINVAL) and leaves the environment alone.
osSetenvFails(key) == key = ""

osSetenv(e, key, value) ==
    IF osSetenvFails(key) THEN e ELSE [e EXCEPT ![key] = EnvSet(value)]

osUnsetenv(e, key) ==
    IF osSetenvFails(key) THEN e ELSE [e EXCEPT ![key] = Unset]

\* Sequences over a set, of length at most n.
SeqsUpTo(set, n) == UNION {[1..k -> set] : k \in 0..n}

SetenvStmts == {S("Setenv", k, v) : k \in EnvKeys, v \in EnvValues}

\* Bodies of the test functions under test.  TestEnv's body is prog.env.
TopTests == {"TestLog", "TestError", "TestFatal", "TestCleanup",
             "TestCleanupError", "TestSub", "TestDeep"}

Body(name) ==
    CASE name = "TestLog" -> <<S("Log", "", ""), S("Stmt", "", "")>>
      [] name = "TestError" -> <<S("Log", "", ""), S("Error", "", "")>>
      [] name = "TestFatal" -> <<S("Fatal", "", ""), S("Stmt", "", "")>>
      [] name = "TestCleanup" ->
            <<S("Cleanup", "cStmt", ""), S("Cleanup", "cAdd", ""),
              S("Run", "TestLog", ""), S("Stmt", "", "")>>
      [] name = "TestCleanupError" ->
            <<S("Log", "", ""), S("Cleanup", "cError", "")>>
      [] name = "TestSub" -> <<S("Run", "TestLog", ""), S("Run", "TestError", "")>>
      [] name = "TestDeep" -> <<S("Run", "SubOuter", "")>>
      [] name = "SubOuter" -> <<S("Run", "TestCleanupError", "")>>
      [] name = "TestEnvSub" ->
            <<S("Setenv", "K1", "b"), S("Run", "TestEnv", ""), S("Stmt", "", "")>>
      [] OTHER -> <<>>

\* Bodies of the cleanup functions.  cError is the shape of TempDir's cleanup
\* (part_002:354-358), which reports a failure with c.Errorf.
CleanupBody(fn) ==
    CASE fn.f = "cStmt" -> <<S("Stmt", "", "")>>
      [] fn.f = "cAdd" -> <<S("Cleanup", "cLate", "")>>
      [] fn.f = "cLate" -> <<S("Stmt", "", "")>>
      [] fn.f = "cError" -> <<S("Error", "", "")>>
      [] fn.f = "os.Setenv" -> <<S("os.Setenv", fn.key, fn.value)>>
      [] fn.f = "os.Unsetenv" -> <<S("os.Unsetenv", fn.key, "")>>
      [] OTHER -> <<>>

\* Values of -test.shuffle, as character sequences.
Off == <<"o", "f", "f">>

On == <<"o", "n">>

ShuffleValues == {Off, On, <<"7">>, <<"-", "7">>, <<"x">>, <<"-">>, <<>>, <<"7", "x">>}

Digits == {"0", "1", "7"}

\* strconv.ParseInt(s, 10, 64) succeeds on an optional sign and digits.
ParseIntOk(s) ==
    LET d == IF s # <<>> /\ s[1] \in {"+", "-"} THEN Tail(s) ELSE s
    IN d # <<>> /\ \A i \in 1..Len(d) : d[i] \in Digits

\* M.shuffle returns nil.
shuffleOk(s) == s = On \/ ParseIntOk(s)

Perms(q) ==
    {p \in [1..Len(q) -> 1..Len(q)] : \A i \in 1..Len(q) : \E j \in 1..Len(q) : p[j] = i}

\* The orders rng.Shuffle can leave m.Tests in.
Shuffled(q) == {[i \in 1..Len(q) |-> q[p[i]]] : p \in Perms(q)}

\* matcher.fullName: ok is false when the name is filtered out.
matchOk(name) == name \notin flag.skip

\* A T (its common part).  registered, called and envFirst are history.
NewT(name, parent, level) ==
    [name |-> name, parent |-> parent, level |-> level,
     logToStdout |-> flag.verbose, output |-> {},
     ran |-> FALSE, failed |-> FALSE, finished |-> FALSE, hasSub |-> FALSE,
     cleanups |-> <<>>,
     registered |-> 0, called |-> <<>>, envFirst |-> {}]

Root == 1

Frame(kind, t, code, phase) == [kind |-> kind, t |-> t, code |-> code, phase |-> phase]

Top == stack[Len(stack)]

Pop(s) == SubSeq(s, 1, Len(s) - 1)

ReplaceTop(s, f) == [s EXCEPT ![Len(s)] = f]

InBody == stack # <<>> /\ Top.kind \in {"fn", "cleanup"} /\ Top.code # <<>>

Stmt == Head(Top.code)

Advance == ReplaceTop(stack, [Top EXCEPT !.code = Tail(@)])

\* The state the methods of common act on.
World == [tt |-> tt, stdout |-> stdout, env |-> env]

Commit(w) == tt' = w.tt /\ stdout' = w.stdout /\ env' = w.env

NoStmt == [valid |-> FALSE, t |-> 0, inFn |-> FALSE, finished |-> FALSE]

NoRun == [valid |-> FALSE, parent |-> 0, sub |-> 0, name |-> "", result |-> TRUE]

NoHist == [stmt |-> NoStmt, run |-> NoRun]

\* The statement about to execute, as history.
ThisStmt ==
    [valid |-> TRUE, t |-> Top.t, inFn |-> Top.kind = "fn",
     finished |-> tt[Top.t].finished]

\* logger.Write
loggerWrite(w, c, lines) ==
    IF w.tt[c].logToStdout
    THEN [w EXCEPT !.stdout = @ \cup lines]
    ELSE [w EXCEPT !.tt[c].output = @ \cup lines]

\* logger.WriteTo; dst = 0 is os.Stdout, otherwise the logger of test dst.
loggerWriteTo(w, c, dst) ==
    IF w.tt[c].logToStdout
    THEN w
    ELSE LET buf == w.tt[c].output
             w1 == [w EXCEPT !.tt[c].output = {}]
         IN IF dst = 0 THEN [w1 EXCEPT !.stdout = @ \cup buf]
            ELSE loggerWrite(w1, dst, buf)

flushToParent(w, c, banner) ==
    IF w.tt[c].parent = 0
    THEN loggerWriteTo(w, c, 0)
    ELSE loggerWriteTo(loggerWrite(w, w.tt[c].parent, {<<banner, c>>}),
                       c, w.tt[c].parent)

RECURSIVE setRan(_, _)
setRan(w, c) ==
    LET w1 == IF w.tt[c].parent # 0 THEN setRan(w, w.tt[c].parent) ELSE w
    IN [w1 EXCEPT !.tt[c].ran = TRUE]

Fail(w, c) == [w EXCEPT !.tt[c].failed = TRUE]

log(w, c) == loggerWrite(w, c, {<<"log", c>>})

Error(w, c) == Fail(log(w, c), c)

FailNow(w, c) == Error([Fail(w, c) EXCEPT !.tt[c].finished = TRUE], c)

Fatal(w, c) == FailNow(log(w, c), c)

Cleanup(w, c, fn) ==
    LET n == w.tt[c].registered + 1
    IN [w EXCEPT !.tt[c].cleanups = Append(@, [fn |-> fn, idx |-> n]),
                 !.tt[c].registered = n]

setenvCleanupUnset(key, prev) == CleanupFn("os.Unsetenv", key, "")

\* The function Setenv hands to Cleanup.
setenvCleanup(key, prev) ==
    IF prev.ok THEN CleanupFn("os.Setenv", key, prev.value)
    ELSE CleanupFn("os.Unsetenv", key, "")

Setenv(w, c, key, value) ==
    LET prev == LookupEnv(w.env, key)
        w1 == IF osSetenvFails(key) THEN Fatal(w, c)
              ELSE [w EXCEPT !.env = osSetenv(@, key, value)]
        w2 == IF \E p \in w.tt[c].envFirst : p[1] = key THEN w1
              ELSE [w1 EXCEPT !.tt[c].envFirst = @ \cup {<<key, prev>>}]
    IN Cleanup(w2, c, setenvCleanup(key, prev))

reportAlways(w, t) ==
    IF w.tt[t].failed
    THEN flushToParent(
             IF w.tt[t].parent # 0 THEN Fail(w, w.tt[t].parent) ELSE w, t, "FAIL")
    ELSE flushToParent(w, t, "PASS")

report(w, t) ==
    IF w.tt[t].failed
    THEN flushToParent(
             IF w.tt[t].parent # 0 THEN Fail(w, w.tt[t].parent) ELSE w, t, "FAIL")
    ELSE IF flag.verbose THEN flushToParent(w, t, "PASS")
    ELSE w

firstCleanup(cleanups) == 1

\* runCleanup: the position in c.cleanups of the function called next.
lastCleanup(cleanups) == Len(cleanups)

RemoveAt(q, i) == SubSeq(q, 1, i - 1) \o SubSeq(q, i + 1, Len(q))

\* A frame of test t's own function or of one of its descendants' tRunner is
\* still on the stack.
RECURSIVE IsAncestor(_, _)
IsAncestor(a, d) ==
    /\ d # 0
    /\ tt[d].parent # 0
    /\ (tt[d].parent = a \/ IsAncestor(a, tt[d].parent))

StillRunning(t) ==
    \E i \in 1..Len(stack) :
        \/ stack[i].kind = "fn" /\ stack[i].t = t
        \/ stack[i].kind = "tRunner" /\ IsAncestor(t, stack[i].t)

\* ---- M.Run ----
\* M.Run is called; -test.shuffle is off or valid.
MRun ==
    /\ stack # <<>> /\ Top.kind = "M.Run" /\ Top.phase = 0
    /\ flag.shuffle = Off \/ shuffleOk(flag.shuffle)
    /\ \E order \in (IF flag.shuffle = Off THEN {m.tests} ELSE Shuffled(m.tests)) :
          m' = [m EXCEPT !.tests = order, !.ok = TRUE]
    /\ tt' = <<NewT("", 0, 0)>>
    /\ stack' = Append(ReplaceTop(stack, [Top EXCEPT !.phase = 1]),
                       Frame("runTests", Root, <<>>, 0))
    /\ hist' = NoHist
    /\ UNCHANGED <<notTest, flag, prog, stdout, env>>

\* M.Run with a -test.shuffle value M.shuffle rejects.
MRunBadShuffle ==
    /\ stack # <<>> /\ Top.kind = "M.Run" /\ Top.phase = 0
    /\ flag.shuffle # Off /\ ~shuffleOk(flag.shuffle)
    /\ m' = [m EXCEPT !.exitCode = 2, !.code = 2]
    /\ stack' = <<>>
    /\ hist' = NoHist
    /\ UNCHANGED <<notTest, flag, prog, tt, stdout, env>>

\* runTests: one repetition of the -test.count loop calls tRunner(t, closure).
RunTestsIter ==
    /\ stack # <<>> /\ Top.kind = "runTests" /\ Top.phase < flag.count
    /\ LET closure == [i \in 1..(2 * Len(m.tests)) |->
                          IF i % 2 = 1 THEN S("Run", m.tests[(i + 1) \div 2], "")
                          ELSE S("ok&&", "", "")]
       IN stack' = ReplaceTop(stack, [Top EXCEPT !.phase = @ + 1])
                   \o <<Frame("tRunner", Root, <<>>, "fn"), Frame("fn", Root, closure, 0)>>
    /\ hist' = NoHist
    /\ UNCHANGED <<notTest, flag, prog, tt, stdout, env, m>>

\* runTests returns t.ran, ok.
RunTestsReturn ==
    /\ stack # <<>> /\ Top.kind = "runTests" /\ Top.phase >= flag.count
    /\ m' = [m EXCEPT !.ran = tt[Root].ran]
    /\ stack' = Pop(stack)
    /\ hist' = NoHist
    /\ UNCHANGED <<notTest, flag, prog, tt, stdout, env>>

\* M.Run after runTests: runBenchmarks is called only when the tests passed.
MRunFinish ==
    /\ stack # <<>> /\ Top.kind = "M.Run" /\ Top.phase = 1
    /\ \E benchOk \in BOOLEAN :
          LET bench == IF ~m.ok THEN "notrun" ELSE IF benchOk THEN "ok" ELSE "fail"
              c == IF ~m.ok \/ ~benchOk THEN 1 ELSE 0
          IN m' = [m EXCEPT !.bench = bench, !.exitCode = c, !.code = c]
    /\ stack' = <<>>
    /\ hist' = NoHist
    /\ UNCHANGED <<notTest, flag, prog, tt, stdout, env>>

\* ---- statements of test and cleanup functions ----
\* ok = ok && !t.Failed() in the closure of runTests.
DoOkAnd ==
    /\ InBody /\ Stmt.op = "ok&&"
    /\ m' = [m EXCEPT !.ok = m.ok /\ ~tt[Top.t].failed]
    /\ stack' = Advance
    /\ hist' = NoHist
    /\ UNCHANGED <<notTest, flag, prog, tt, stdout, env>>

\* A statement without effect on the test's bookkeeping.
DoStmt ==
    /\ InBody /\ Stmt.op = "Stmt"
    /\ stack' = Advance
    /\ hist' = [NoHist EXCEPT !.stmt = ThisStmt]
    /\ UNCHANGED <<notTest, flag, prog, tt, stdout, env, m>>

DoLog ==
    /\ InBody /\ Stmt.op = "Log"
    /\ Commit(log(World, Top.t))
    /\ stack' = Advance
    /\ hist' = [NoHist EXCEPT !.stmt = ThisStmt]
    /\ UNCHANGED <<notTest, flag, prog, m>>

DoError ==
    /\ InBody /\ Stmt.op = "Error"
    /\ Commit(Error(World, Top.t))
    /\ stack' = Advance
    /\ hist' = [NoHist EXCEPT !.stmt = ThisStmt]
    /\ UNCHANGED <<notTest, flag, prog, m>>

\* Fatal returns to its caller: FailNow has no runtime.Goexit.
DoFatal ==
    /\ InBody /\ Stmt.op = "Fatal"
    /\ Commit(Fatal(World, Top.t))
    /\ stack' = Advance
    /\ hist' = [NoHist EXCEPT !.stmt = ThisStmt]
    /\ UNCHANGED <<notTest, flag, prog, m>>

DoCleanup ==
    /\ InBody /\ Stmt.op = "Cleanup"
    /\ Commit(Cleanup(World, Top.t, CleanupFn(Stmt.arg, "", "")))
    /\ stack' = Advance
    /\ hist' = [NoHist EXCEPT !.stmt = ThisStmt]
    /\ UNCHANGED <<notTest, flag, prog, m>>

DoSetenv ==
    /\ InBody /\ Stmt.op = "Setenv"
    /\ Commit(Setenv(World, Top.t, Stmt.arg, Stmt.val))
    /\ stack' = Advance
    /\ hist' = [NoHist EXCEPT !.stmt = ThisStmt]
    /\ UNCHANGED <<notTest, flag, prog, m>>

\* The bodies of the closures Setenv registers.
DoOsEnv ==
    /\ InBody /\ Stmt.op \in {"os.Setenv", "os.Unsetenv"}
    /\ env' = IF Stmt.op = "os.Setenv" THEN osSetenv(env, Stmt.arg, Stmt.val)
              ELSE osUnsetenv(env, Stmt.arg)
    /\ stack' = Advance
    /\ hist' = [NoHist EXCEPT !.stmt = ThisStmt]
    /\ UNCHANGED <<notTest, flag, prog, tt, stdout, m>>

\* T.Run up to the call of tRunner, or to its return when the name is filtered.
DoRun ==
    /\ InBody /\ Stmt.op = "Run"
    /\ LET t == Top.t
           name == Stmt.arg
           w0 == [World EXCEPT !.tt[t].hasSub = TRUE]
           sub == Len(tt) + 1
           w1 == [w0 EXCEPT !.tt = Append(@, NewT(name, t, tt[t].level + 1))]
           w2 == IF flag.verbose THEN loggerWrite(w1, t, {<<"RUN", sub>>}) ELSE w1
           body == IF name = "TestEnv" THEN prog.env ELSE Body(name)
       IN IF ~matchOk(name)
          THEN /\ Commit(w0)
               /\ stack' = Advance
               /\ hist' = [stmt |-> ThisStmt,
                           run |-> [valid |-> TRUE, parent |-> t, sub |-> 0,
                                    name |-> name, result |-> TRUE]]
          ELSE /\ Commit(w2)
               /\ stack' = Advance \o <<Frame("tRunner", sub, <<>>, "fn"),
                                        Frame("fn", sub, body, 0)>>
               /\ hist' = [NoHist EXCEPT !.stmt = ThisStmt]
    /\ UNCHANGED <<notTest, flag, prog, m>>

\* A test or cleanup function returns.
FnReturn ==
    /\ stack # <<>> /\ Top.kind \in {"fn", "cleanup"} /\ Top.code = <<>>
    /\ stack' = Pop(stack)
    /\ hist' = NoHist
    /\ UNCHANGED <<notTest, flag, prog, tt, stdout, env, m>>

\* tRunner after fn(t): t.report(), then setRan for a test without subtests.
TRunnerReport ==
    /\ stack # <<>> /\ Top.kind = "tRunner" /\ Top.phase = "fn"
    /\ LET t == Top.t
           w1 == report(World, t)
           w2 == IF tt[t].parent # 0 /\ ~tt[t].hasSub THEN setRan(w1, t) ELSE w1
       IN Commit(w2)
    /\ stack' = ReplaceTop(stack, [Top EXCEPT !.phase = "defer"])
    /\ hist' = NoHist
    /\ UNCHANGED <<notTest, flag, prog, m>>

\* runCleanup: one turn of the loop that finds a function and calls it.
RunCleanup ==
    /\ stack # <<>> /\ Top.kind = "tRunner" /\ Top.phase = "defer"
    /\ tt[Top.t].cleanups # <<>>
    /\ LET t == Top.t
           i == lastCleanup(tt[t].cleanups)
           cl == tt[t].cleanups[i]
       IN /\ tt' = [tt EXCEPT ![t].cleanups = RemoveAt(@, i),
                              ![t].called = Append(@, [idx |-> cl.idx,
                                                       nreg |-> tt[t].registered,
                                                       early |-> StillRunning(t)])]
          /\ stack' = Append(stack, Frame("cleanup", t, CleanupBody(cl.fn), 0))
    /\ hist' = NoHist
    /\ UNCHANGED <<notTest, flag, prog, stdout, env, m>>

\* runCleanup finds no function left and returns.
RunCleanupDone ==
    /\ stack # <<>> /\ Top.kind = "tRunner" /\ Top.phase = "defer"
    /\ tt[Top.t].cleanups = <<>>
    /\ stack' = ReplaceTop(stack, [Top EXCEPT !.phase = "exit"])
    /\ hist' = NoHist
    /\ UNCHANGED <<notTest, flag, prog, tt, stdout, env, m>>

\* tRunner returns; for a subtest T.Run then returns !sub.failed.
TRunnerReturn ==
    /\ stack # <<>> /\ Top.kind = "tRunner" /\ Top.phase = "exit"
    /\ stack' = Pop(stack)
    /\ hist' = IF tt[Top.t].parent = 0 THEN NoHist
               ELSE [NoHist EXCEPT !.run =
                        [valid |-> TRUE, parent |-> tt[Top.t].parent, sub |-> Top.t,
                         name |-> tt[Top.t].name, result |-> ~tt[Top.t].failed]]
    /\ UNCHANGED <<notTest, flag, prog, tt, stdout, env, m>>

InitialEnvs == {e \in [EnvKeys -> {Unset, EnvSet("o")}] : e[""] = Unset}

NoCode == -1

TestState(f, p, e) ==
    /\ flag = f
    /\ prog = p
    /\ tt = <<>>
    /\ stack = <<Frame("M.Run", 0, <<>>, 0)>>
    /\ stdout = {}
    /\ env = e
    /\ m = [tests |-> p.tests, exitCode |-> 0, code |-> NoCode, ok |-> TRUE,
            ran |-> FALSE, bench |-> "notrun"]
    /\ hist = NoHist

DefaultEnv == [k \in EnvKeys |-> Unset]

\* The state when main calls M.Run: the flags are parsed, the tests are listed.
TestInit ==
    \/ \E tests \in SeqsUpTo(TopTests, MaxTests), v \in BOOLEAN, n \in 1..MaxCount,
          skip \in {{}, {"TestError"}} :
          TestState([verbose |-> v, count |-> n, shuffle |-> Off, skip |-> skip],
                    [tests |-> tests, env |-> <<>>], DefaultEnv)
    \/ \E sh \in ShuffleValues, n \in 0..1 :
          TestState([verbose |-> FALSE, count |-> n, shuffle |-> sh, skip |-> {}],
                    [tests |-> <<"TestLog", "TestError">>, env |-> <<>>], DefaultEnv)
    \/ \E top \in {"TestEnv", "TestEnvSub"}, p \in SeqsUpTo(SetenvStmts, MaxSetenv),
          e \in InitialEnvs :
          TestState([verbose |-> FALSE, count |-> 1, shuffle |-> Off, skip |-> {}],
                    [tests |-> <<top>>, env |-> p], e)

\* No test binary is running.
TestIdle ==
    /\ flag = [verbose |-> FALSE, count |-> 0, shuffle |-> Off, skip |-> {}]
    /\ prog = [tests |-> <<>>, env |-> <<>>]
    /\ tt = <<>>
    /\ stack = <<>>
    /\ stdout = {}
    /\ env = DefaultEnv
    /\ m = [tests |-> <<>>, exitCode |-> 0, code |-> NoCode, ok |-> TRUE,
            ran |-> FALSE, bench |-> "notrun"]
    /\ hist = NoHist

TestNext ==
    \/ MRun \/ MRunBadShuffle \/ RunTestsIter \/ RunTestsReturn \/ MRunFinish
    \/ DoOkAnd \/ DoStmt \/ DoLog \/ DoError \/ DoFatal \/ DoCleanup
    \/ DoSetenv \/ DoOsEnv \/ DoRun \/ FnReturn
    \/ TRunnerReport \/ RunCleanup \/ RunCleanupDone \/ TRunnerReturn

(***************************************************************************)
(* ReadTemperature (src/unnamed/part_000).  uint32 and int32 values are    *)
(* kept as two 16-bit halves, so that every operation is the 32-bit        *)
(* operation of the hardware, wrap-around included.                        *)
(***************************************************************************)
Half == 65536

adcAref == 3300

AdcBits == 12

\* The 32-bit word of a value 0 <= x < 2^31.
Word32(x) == [hi |-> x \div Half, lo |-> x % Half]

\* a * k modulo 2^32, for 0 <= k < 2^15.
Mul32(a, k) ==
    LET lo == a.lo * k
        hi == a.hi * k + lo \div Half
    IN [hi |-> hi % Half, lo |-> lo % Half]

\* a - b modulo 2^32.
Sub32(a, b) ==
    LET borrow == IF a.lo < b.lo THEN 1 ELSE 0
    IN [hi |-> (a.hi - b.hi - borrow) % Half, lo |-> (a.lo - b.lo) % Half]

\* int32(a) >> 16: the arithmetic shift keeps the sign.
Sar16(a) == IF a.hi >= Half \div 2 THEN a.hi - Half ELSE a.hi

\* getOnce's return value for a RESULT of raw: uint16(raw) << 4.
getOnceOf(raw) == (raw * 16) % Half

\* getVoltage: (adcAref << 16) / (1 << 12) * uint32(getOnce() >> 4).
getVoltage(raw) ==
    Mul32(Word32((adcAref * Half) \div (2^AdcBits)), getOnceOf(raw) \div 16)

\* (27000<<16 - (int32(getVoltage()) - 706<<16) * 581) >> 16
ReadTemperatureOf(raw) ==
    Sar16(Sub32(Word32(27000 * Half),
                Mul32(Sub32(getVoltage(raw), Word32(706 * Half)), 581)))

NoTemp == [valid |-> FALSE, millicelsius |-> 0]

ReadTemperature ==
    /\ ~temp.valid
    /\ temp' = [valid |-> TRUE, millicelsius |-> ReadTemperatureOf(adcRaw)]
    /\ UNCHANGED <<notTemp, adcRaw>>

\* The sensor can present any 12-bit sample.
TempInit ==
    /\ adcRaw \in 0..(2^AdcBits - 1)
    /\ temp = NoTemp

TempIdle ==
    /\ adcRaw = 0
    /\ temp = NoTemp

TempNext == ReadTemperature

(***************************************************************************)
(* handleUSBIRQ and handleUSBSetAddress (src/unnamed/part_001)             *)
(* Of the sixteen endpoints only endpoint 0 has modelled registers; data   *)
(* bytes are named by their position in the slice handed to sendUSBPacket. *)
(***************************************************************************)
UsbTimeout == 3000

NumEndpoints == 16

EndpointPacketSize == 64

usbBufferLen == 64

\* len(usbSetupHandler).
NumSetupHandlers == 2

\* Longest data handed to sendUSBPacket.
MaxDataLen == 129

\* The data lengths tried: around every multiple of the packet size.
DataLens ==
    {n \in 0..MaxDataLen : n % EndpointPacketSize \in {0, 1, EndpointPacketSize - 1}}

\* The device address a SET_ADDRESS request carries (setup.WValueL).
HostAddress == 7

IntBits == {"SETUP_REQ", "BUFF_STATUS", "BUS_RESET"}

NoSetAddr == [timeout |-> 0, polls |-> 0, addressSet |-> FALSE]

NoIters == [out |-> 0, in |-> 0]

\* A value of a buffer control register of endpoint 0.
BufCtrl(len, pid1, avail, full, stall) ==
    [len |-> len, pid1 |-> pid1, avail |-> avail, full |-> full, stall |-> stall]

NoSetup ==
    [valid |-> FALSE, standard |-> FALSE, wIndex |-> 0, registered |-> FALSE,
     result |-> FALSE]

\* The setup packets and the behaviour of the handler each one reaches:
\* result is the handler's return value, send the length of the data it hands
\* to sendUSBPacket(0, data, 0) (-1: it sends nothing).
SetupRequests ==
    [standard : BOOLEAN, setAddress : BOOLEAN, wIndex : 0..NumSetupHandlers,
     registered : BOOLEAN, result : BOOLEAN, send : {-1} \cup DataLens]

\* The state the USB functions act on.
USBWorld == [ep0 |-> usbEP0, regs |-> usbRegs, log |-> usbLog]

USBCommit(u) == usbEP0' = u.ep0 /\ usbRegs' = u.regs /\ usbLog' = u.log

pollAckForever(timeout, ack) ==
    IF ack THEN [timeout |-> timeout, leave |-> TRUE]
    ELSE [timeout |-> timeout, leave |-> FALSE]

\* One evaluation of the loop condition of handleUSBSetAddress and, when the
\* ACK_REC bit reads 0, the loop body.
pollAck(timeout, ack) ==
    IF ack THEN [timeout |-> timeout, leave |-> TRUE]
    ELSE [timeout |-> timeout - 1, leave |-> timeout - 1 = 0]

\* sendViaEPIn(0, data[start:], count)
sendViaEPIn(u, start, count) ==
    LET data0 == ~u.ep0.data0
    IN [u EXCEPT !.ep0.data0 = data0,
                 !.regs.ep0In = BufCtrl(count, ~data0, TRUE, TRUE, FALSE),
                 !.log.queued = Append(@, [start |-> start, count |-> count])]

\* sendUSBPacket(0, data, maxsize) with len(data) = len.  The data is kept only
\* while offset > 0, the only time handleUSBIRQ reads it.
sendUSBPacket(u, len, maxsize) ==
    LET c0 == IF 0 < maxsize /\ maxsize < len THEN maxsize ELSE len
        more == c0 > EndpointPacketSize
        count == IF more THEN EndpointPacketSize ELSE c0
        u1 == [u EXCEPT !.ep0 = [offset |-> IF more THEN count ELSE 0,
                                 len |-> IF more THEN len ELSE 0,
                                 data0 |-> TRUE],
                        !.log.len = len,
                        !.log.queued = <<>>]
    IN sendViaEPIn(u1, 0, count)

nextChunkWhole(offset, len) == len - offset

\* handleUSBIRQ: the count of the chunk queued on a buffer-done interrupt.
nextChunk(offset, len) ==
    IF len - offset > EndpointPacketSize THEN EndpointPacketSize ELSE len - offset

\* handleUSBIRQ: the continuation of an endpoint-0 send (part_001:87-100).
sendOnEP0(u) ==
    IF u.ep0.offset > 0
    THEN LET count == nextChunk(u.ep0.offset, u.ep0.len)
             u1 == sendViaEPIn(u, u.ep0.offset, count)
             offset == u.ep0.offset + count
         IN IF offset = u.ep0.len
            THEN [u1 EXCEPT !.ep0.offset = 0, !.ep0.len = 0]
            ELSE [u1 EXCEPT !.ep0.offset = offset]
    ELSE u

\* sendStallViaEPIn(0)
sendStallViaEPIn(u) ==
    [u EXCEPT !.regs.ep0In = BufCtrl(0, FALSE, FALSE, TRUE, TRUE),
              !.log.stalled = TRUE]

setupOkUnchecked(req) ==
    IF req.standard THEN req.result ELSE req.result

\* handleUSBIRQ: ok, as the setup branch computes it (part_001:67-76).
setupOk(req) ==
    IF req.standard THEN req.result
    ELSE IF req.wIndex < NumSetupHandlers /\ req.registered THEN req.result
    ELSE FALSE

\* A handler is called for the request.
HandlerCalled(req) ==
    req.standard \/ (req.wIndex < NumSetupHandlers /\ req.registered)

SetupRecord(req) ==
    [valid |-> TRUE, standard |-> req.standard, wIndex |-> req.wIndex,
     registered |-> req.registered, result |-> req.result]

\* handleUSBIRQ: the end of the setup branch, if !ok { sendStallViaEPIn(0) }.
finishSetup(u, req) ==
    LET u1 == IF ~setupOk(req) THEN sendStallViaEPIn(u) ELSE u
    IN [u1 EXCEPT !.log.setup = SetupRecord(req)]

\* The setup branch for a request that does not reach handleUSBSetAddress.
handleSetup(u, req) ==
    finishSetup(IF HandlerCalled(req) /\ req.send >= 0
                THEN sendUSBPacket(u, req.send, 0) ELSE u, req)

initEndpointUnarmed(u, ep, config) ==
    IF ep = 0 /\ config = "CONTROL"
    THEN [u EXCEPT !.regs.ep0Out = BufCtrl(0, TRUE, FALSE, FALSE, FALSE)]
    ELSE u

\* initEndpoint(ep, config), for endpoint 0.
initEndpoint(u, ep, config) ==
    IF ep = 0 /\ config = "CONTROL"
    THEN [u EXCEPT !.regs.ep0Out = BufCtrl(0, TRUE, TRUE, FALSE, FALSE)]
    ELSE u

\* handleEndpointRx(0) and handleEndpointRxComplete(0)
handleEndpointRx0(u) ==
    [u EXCEPT !.ep0.data0 = ~@,
              !.regs.ep0Out = BufCtrl(usbBufferLen, TRUE, TRUE, FALSE, FALSE)]

\* The interrupt is taken: status := INTS.  A pending setup packet or bus
\* reset is also pending in SIE_STATUS.
USBInterrupt ==
    /\ usbPC = "idle"
    /\ usbStatus' \in SUBSET IntBits
    /\ usbPC' = "setup"
    /\ usbI' = 0
    /\ usbIters' = NoIters
    /\ usbSetAddr' = NoSetAddr
    /\ usbRegs' = [usbRegs EXCEPT !.sie = usbStatus' \ {"BUFF_STATUS"}]
    /\ usbLog' = [usbLog EXCEPT !.order = <<>>, !.setup = NoSetup, !.stalled = FALSE]
    /\ UNCHANGED <<notUsb, usbEP0>>

\* The setup-packet branch: a SET_ADDRESS request reaches handleUSBSetAddress,
\* which sends the zero-length packet and starts polling; any other request is
\* handled (or stalled) without a loop.
USBSetup ==
    /\ usbPC = "setup"
    /\ IF "SETUP_REQ" \in usbStatus
       THEN \E req \in SetupRequests :
               LET u == [USBWorld EXCEPT !.regs.sie = @ \ {"SETUP_REQ"},
                                         !.log.order = Append(@, "SETUP_REQ")]
               IN IF req.standard /\ req.setAddress
                  THEN /\ req.result /\ req.send = 0 /\ req.wIndex = 0 /\ ~req.registered
                       /\ usbPC' = "setaddr"
                       /\ usbSetAddr' = [timeout |-> UsbTimeout, polls |-> 0,
                                         addressSet |-> FALSE]
                       /\ USBCommit(sendUSBPacket(u, 0, 0))
                  ELSE /\ ~req.setAddress
                       /\ usbPC' = "buff"
                       /\ UNCHANGED usbSetAddr
                       /\ USBCommit(handleSetup(u, req))
       ELSE /\ usbPC' = "buff"
            /\ UNCHANGED <<usbSetAddr, usbEP0, usbRegs, usbLog>>
    /\ UNCHANGED <<notUsb, usbStatus, usbI, usbIters>>

\* handleUSBSetAddress reads SIE_STATUS once; the hardware reports either value.
\* When it leaves the loop it returns true to the setup branch.
PollAck ==
    /\ usbPC = "setaddr"
    /\ usbSetAddr.polls <= UsbTimeout
    /\ \E ack \in BOOLEAN :
          LET p == pollAck(usbSetAddr.timeout, ack)
              req == [standard |-> TRUE, setAddress |-> TRUE, wIndex |-> 0,
                      registered |-> FALSE, result |-> TRUE, send |-> 0]
          IN /\ usbSetAddr' = [timeout |-> p.timeout,
                               polls |-> usbSetAddr.polls + 1,
                               addressSet |-> ack]
             /\ usbPC' = IF p.leave THEN "buff" ELSE "setaddr"
             /\ LET u == IF ack THEN [USBWorld EXCEPT !.regs.addr = HostAddress]
                         ELSE USBWorld
                IN USBCommit(IF p.leave THEN finishSetup(u, req) ELSE u)
    /\ UNCHANGED <<notUsb, usbStatus, usbI, usbIters>>

\* The buffer-status branch is entered or skipped; when entered, a pending
\* endpoint-0 send queues its next chunk.
USBBuffStatus ==
    /\ usbPC = "buff"
    /\ usbPC' = IF "BUFF_STATUS" \in usbStatus THEN "out" ELSE "reset"
    /\ usbI' = 0
    /\ LET u == [USBWorld EXCEPT !.log.setup = NoSetup]
       IN IF "BUFF_STATUS" \in usbStatus
          THEN USBCommit(sendOnEP0([u EXCEPT !.log.order = Append(@, "BUFF_STATUS")]))
          ELSE USBCommit(u)
    /\ UNCHANGED <<notUsb, usbStatus, usbIters, usbSetAddr>>

\* One iteration of the OUT loop; the endpoint's bit of s2 is set or not.
OutIter ==
    /\ usbPC = "out" /\ usbI < NumEndpoints
    /\ usbI' = usbI + 1
    /\ usbIters' = [usbIters EXCEPT !.out = @ + 1]
    /\ \E bit \in BOOLEAN :
          IF bit /\ usbI = 0 THEN USBCommit(handleEndpointRx0(USBWorld))
          ELSE UNCHANGED <<usbEP0, usbRegs, usbLog>>
    /\ UNCHANGED <<notUsb, usbPC, usbStatus, usbSetAddr>>

OutDone ==
    /\ usbPC = "out" /\ ~(usbI < NumEndpoints)
    /\ usbPC' = "in"
    /\ usbI' = 0
    /\ UNCHANGED <<notUsb, usbStatus, usbIters, usbSetAddr, usbEP0, usbRegs, usbLog>>

\* One iteration of the IN loop.
InIter ==
    /\ usbPC = "in" /\ usbI < NumEndpoints
    /\ usbI' = usbI + 1
    /\ usbIters' = [usbIters EXCEPT !.in = @ + 1]
    /\ UNCHANGED <<notUsb, usbPC, usbStatus, usbSetAddr, usbEP0, usbRegs, usbLog>>

InDone ==
    /\ usbPC = "in" /\ ~(usbI < NumEndpoints)
    /\ usbPC' = "reset"
    /\ usbI' = 0
    /\ UNCHANGED <<notUsb, usbStatus, usbIters, usbSetAddr, usbEP0, usbRegs, usbLog>>

\* The bus-reset branch, and the return from the handler.
USBReturn ==
    /\ usbPC = "reset"
    /\ usbPC' = "idle"
    /\ IF "BUS_RESET" \in usbStatus
       THEN USBCommit(initEndpoint([USBWorld EXCEPT !.regs.sie = @ \ {"BUS_RESET"},
                                                    !.regs.addr = 0,
                                                    !.log.order = Append(@, "BUS_RESET")],
                                   0, "CONTROL"))
       ELSE UNCHANGED <<usbEP0, usbRegs, usbLog>>
    /\ UNCHANGED <<notUsb, usbStatus, usbI, usbIters, usbSetAddr>>

\* After Configure: the DPRAM is cleared, nothing is being sent.
USBIdle ==
    /\ usbPC = "idle"
    /\ usbStatus = {}
    /\ usbI = 0
    /\ usbIters = NoIters
    /\ usbSetAddr = NoSetAddr
    /\ usbEP0 = [offset |-> 0, len |-> 0, data0 |-> FALSE]
    /\ usbRegs = [addr |-> 0, sie |-> {}, 
                  ep0In |-> BufCtrl(0, FALSE, FALSE, FALSE, FALSE),
                  ep0Out |-> BufCtrl(0, FALSE, FALSE, FALSE, FALSE)]
    /\ usbLog = [len |-> 0, queued |-> <<>>, setup |-> NoSetup, stalled |-> FALSE,
                 order |-> <<>>]

USBNext ==
    \/ USBInterrupt \/ USBSetup \/ PollAck \/ USBBuffStatus
    \/ OutIter \/ OutDone \/ InIter \/ InDone \/ USBReturn

(***************************************************************************)
(* The cooperative scheduler of spec section 4.2: spawn, yield, park, wake *)
(* and runLoop over a FIFO of Runnable tasks.  A switch from one task to   *)
(* the next is one step.                                                   *)
(***************************************************************************)
NumSchedTasks == 3

\* Longest history of enqueues kept (spawn, yield and wake stop beyond it).
MaxSchedLog == 4

SchedTasks == 1..NumSchedTasks

RunningTasks == {t \in SchedTasks : taskState[t] = "Running"}

lastRunnable(q) == q[Len(q)]

\* runLoop resumes the next Runnable task: the head of the FIFO.
nextRunnable(q) == Head(q)

Without(q, t) ==
    LET keep == {i \in 1..Len(q) : q[i] # t}
        pos(k) == CHOOSE i \in keep : Cardinality({j \in keep : j < i}) = k - 1
    IN [k \in 1..Cardinality(keep) |-> q[pos(k)]]

suspendedStill(how) ==
    CASE how = "yield" -> "Running"
      [] how = "park" -> "Parked"
      [] how = "return" -> "Dead"

\* The state of a task that leaves the processor.
suspended(how) ==
    CASE how = "yield" -> "Runnable"
      [] how = "park" -> "Parked"
      [] how = "return" -> "Dead"

CanLog == Len(schedLog.enq) < MaxSchedLog

\* The running task stops running (how) and the scheduler resumes the next
\* Runnable task, if there is one; otherwise runLoop waits.
Switch(t, how) ==
    LET q == IF how = "yield" THEN Append(runq, t) ELSE runq
        st == [taskState EXCEPT ![t] = suspended(how)]
        enq == IF how = "yield" THEN Append(schedLog.enq, t) ELSE schedLog.enq
    IN IF q = <<>>
       THEN /\ taskState' = st
            /\ runq' = q
            /\ schedLog' = [schedLog EXCEPT !.enq = enq]
       ELSE LET n == nextRunnable(q)
            IN /\ taskState' = [st EXCEPT ![n] = "Running"]
               /\ runq' = Without(q, n)
               /\ schedLog' = [enq |-> enq, res |-> Append(schedLog.res, n)]

\* spawn(entry), called by the running task: the new task is enqueued Runnable.
Spawn(t, new) ==
    /\ taskState[t] = "Running" /\ taskState[new] = "Unborn" /\ CanLog
    /\ taskState' = [taskState EXCEPT ![new] = "Runnable"]
    /\ runq' = Append(runq, new)
    /\ schedLog' = [schedLog EXCEPT !.enq = Append(@, new)]
    /\ UNCHANGED notSched

Yield(t) ==
    /\ taskState[t] = "Running" /\ CanLog
    /\ Switch(t, "yield")
    /\ UNCHANGED notSched

Park(t) ==
    /\ taskState[t] = "Running"
    /\ Switch(t, "park")
    /\ UNCHANGED notSched

\* The task's function returns.
Return(t) ==
    /\ taskState[t] = "Running"
    /\ Switch(t, "return")
    /\ UNCHANGED notSched

\* wake(task), from the running task, the timer queue or an interrupt.
Wake(t) ==
    /\ taskState[t] = "Parked" /\ CanLog
    /\ taskState' = [taskState EXCEPT ![t] = "Runnable"]
    /\ runq' = Append(runq, t)
    /\ schedLog' = [schedLog EXCEPT !.enq = Append(@, t)]
    /\ UNCHANGED notSched

\* wake on a task that is already Runnable (or running) is a no-op.
WakeNoOp(t) ==
    /\ taskState[t] \in {"Runnable", "Running"}
    /\ UNCHANGED vars

\* runLoop leaves its low-power wait: a task has become Runnable.
RunLoop ==
    /\ RunningTasks = {} /\ runq # <<>>
    /\ LET n == nextRunnable(runq)
       IN /\ taskState' = [taskState EXCEPT ![n] = "Running"]
          /\ runq' = Without(runq, n)
          /\ schedLog' = [schedLog EXCEPT !.res = Append(@, n)]
    /\ UNCHANGED notSched

\* The main task is running; no other task exists yet.
SchedInit ==
    /\ taskState = [t \in SchedTasks |-> IF t = 1 THEN "Running" ELSE "Unborn"]
    /\ runq = <<>>
    /\ schedLog = [enq |-> <<>>, res |-> <<>>]

SchedIdle ==
    /\ taskState = [t \in SchedTasks |-> "Unborn"]
    /\ runq = <<>>
    /\ schedLog = [enq |-> <<>>, res |-> <<>>]

SchedNext ==
    \/ RunLoop
    \/ \E t \in SchedTasks :
          \/ Yield(t) \/ Park(t) \/ Return(t) \/ Wake(t) \/ WakeNoOp(t)
          \/ \E new \in SchedTasks : Spawn(t, new)

\* The added subsystems at rest.
ExtIdle == TestIdle /\ TempIdle /\ USBIdle /\ SchedIdle

(***************************************************************************)
(* Specifications                                                          *)
(***************************************************************************)
InitTimer == TimerInit /\ AsmIdle /\ ADCIdle /\ ExtIdle

InitAsm == AsmInit /\ TimerInit /\ ADCIdle /\ ExtIdle

InitADC == ADCInitWith("tasks") /\ TimerInit /\ AsmIdle /\ ExtIdle

InitADCCores == ADCInitWith("cores") /\ TimerInit /\ AsmIdle /\ ExtIdle

SpecTimer == InitTimer /\ [][TimerNext]_vars

SpecAsm == InitAsm /\ [][AsmNext]_vars

SpecADC == InitADC /\ [][ADCNext]_vars

SpecADCCores == InitADCCores /\ [][ADCCoresNext]_vars

InitTest == TestInit /\ TimerInit /\ AsmIdle /\ ADCIdle /\ TempIdle /\ USBIdle /\ SchedIdle

SpecTest == InitTest /\ [][TestNext]_vars

InitTemp == TempInit /\ TimerInit /\ AsmIdle /\ ADCIdle /\ TestIdle /\ USBIdle /\ SchedIdle

SpecTemp == InitTemp /\ [][TempNext]_vars

InitUSB == USBIdle /\ TimerInit /\ AsmIdle /\ ADCIdle /\ TestIdle /\ TempIdle /\ SchedIdle

SpecUSB == InitUSB /\ [][USBNext]_vars

InitSched == SchedInit /\ TimerInit /\ AsmIdle /\ ADCIdle /\ TestIdle /\ TempIdle /\ USBIdle

SpecSched == InitSched /\ [][SchedNext]_vars

(***************************************************************************)
(* Claims about the timer queue (checked under SpecTimer)                  *)
(***************************************************************************)
Periodic == lastFire.valid /\ lastFire.period # 0

\* C1: when a periodic timer fires, timerCallback sets the next deadline to
\* the old deadline plus the period, whatever the time of firing: a
\* period-100-tick ticker due at tick 100 and fired at tick 115 is next due
\* at tick 200, not 215.
C1_NonDrift ==
    Periodic =>
        /\ lastFire.whenAfter = Add64(lastFire.whenBefore, lastFire.period)
        /\ (lastFire.whenBefore + lastFire.period <= MaxInt64
               => lastFire.whenAfter = lastFire.whenBefore + lastFire.period)
        /\ ((/\ nanosecondsToTicks(lastFire.whenBefore) = 100
             /\ nanosecondsToTicks(lastFire.period) = 100
             /\ lastFire.now = 115)
               => nanosecondsToTicks(lastFire.whenAfter) = 200)

\* The ticker of C1 has fired late, at tick 115, and is queued again.
C1_Witness ==
    /\ Periodic
    /\ lastFire.now = 115
    /\ nanosecondsToTicks(lastFire.whenBefore) = 100
    /\ nanosecondsToTicks(lastFire.period) = 100
    /\ lastFire.delta = ticksToNanoseconds(15)
    /\ InQueue(lastFire.id, timerQueue)
    /\ whenTicks(lastFire.id, timers) = 200

\* C2: when the next deadline of a periodic timer has passed as well by the
\* time it fires (ticker due at 100, period 100, checked at tick 250), the one
\* firing resynchronises the deadline past the present (300), so that no
\* further firing is due for the missed periods.
C2_CatchUp ==
    (/\ Periodic
     /\ lastFire.period > 0
     /\ lastFire.whenBefore + lastFire.period <= MaxInt64
     /\ nanosecondsToTicks(lastFire.whenBefore + lastFire.period) < lastFire.now)
        => nanosecondsToTicks(lastFire.whenAfter) > lastFire.now

\* C3: a firing calls the timer's callback exactly once, first, with the delta
\* timerCallback received; a one-shot timer is then not re-added and keeps its
\* deadline; a periodic timer has its deadline advanced by one period and is
\* re-added exactly once.
C3_FireOnce ==
    lastFire.valid =>
        /\ Len(lastFire.events) >= 1
        /\ lastFire.events[1] = [op |-> "callCallback", arg |-> lastFire.delta]
        /\ Cardinality({i \in 1..Len(lastFire.events) :
                            lastFire.events[i].op = "callCallback"}) = 1
        /\ (lastFire.period = 0 =>
               /\ Len(lastFire.events) = 1
               /\ lastFire.whenAfter = lastFire.whenBefore
               /\ ~InQueue(lastFire.id, timerQueue))
        /\ (lastFire.period # 0 =>
               /\ lastFire.events[2] = [op |-> "addTimer", arg |-> lastFire.whenAfter]
               /\ Len(lastFire.events) = 2
               /\ lastFire.whenAfter = Add64(lastFire.whenBefore, lastFire.period)
               /\ timers[lastFire.id].when = lastFire.whenAfter
               /\ Cardinality({i \in 1..Len(timerQueue) :
                                   timerQueue[i] = lastFire.id}) = 1)

\* A one-shot timer has fired while a ticker that fired before is queued with
\* its advanced deadline.
C3_Witness ==
    /\ lastFire.valid
    /\ lastFire.period = 0
    /\ ~InQueue(lastFire.id, timerQueue)
    /\ \E j \in TimerIds :
          /\ InQueue(j, timerQueue)
          /\ timers[j] = [when |-> 400, period |-> 200]

\* C4: advancing a periodic timer never yields a deadline (in ticks) smaller
\* than the previous one, also when when + period exceeds the int64 range.
C4_Saturates ==
    (Periodic /\ lastFire.period > 0) =>
        nanosecondsToTicks(lastFire.whenAfter)
            >= nanosecondsToTicks(lastFire.whenBefore)

\* C5: the timer queue is sorted ascending by deadline (in ticks) after every
\* insertion, removal and firing, and the timer that fires is one with the
\* smallest deadline of the queue.
C5_Sorted ==
    /\ \A i, j \in 1..Len(timerQueue) :
          i < j => whenTicks(timerQueue[i], timers) <= whenTicks(timerQueue[j], timers)
    /\ \A i, j \in 1..Len(timerQueue) : i # j => timerQueue[i] # timerQueue[j]
    /\ lastFire.valid => lastFire.headWasMin

\* Of three timers due at ticks 50, 10 and 30 (ids 1, 2, 3) the one due at 10
\* has just fired, first, and those due at 30 and 50 are queued in that order.
C5_Witness ==
    /\ lastFire.valid
    /\ lastFire.id = 2
    /\ nanosecondsToTicks(lastFire.whenBefore) = 10
    /\ timerQueue = <<3, 1>>
    /\ whenTicks(3, timers) = 30
    /\ whenTicks(1, timers) = 50

(***************************************************************************)
(* Claims about asm_mipsx.S (checked under SpecAsm)                        *)
(***************************************************************************)
\* C6: when tinygo_scanstack is entered, $a0 equals the stack pointer after
\* the pushes, and the entry value of every callee-saved register ($s0-$s8)
\* and of $ra is stored in the frame at or above that address.
C6_SavedAboveScanLow ==
    (entry.routine = "scanCurrentStack" /\ cpuPC = ScanstackEntry) =>
        /\ reg["a0"] = reg["sp"]
        /\ reg["sp"] = entry.reg["sp"] - 40
        /\ \A r \in CalleeSaved \cup {"ra"} :
              \E a \in Addrs :
                 /\ a >= reg["a0"]
                 /\ a < entry.reg["sp"]
                 /\ mem[a] = entry.reg[r]

\* The scanner is about to run with the caller's $s8 and $ra in the frame.
C6_Witness ==
    /\ entry.routine = "scanCurrentStack"
    /\ cpuPC = ScanstackEntry
    /\ reg["a0"] = reg["sp"]
    /\ mem[reg["sp"] + 32] = entry.reg["s8"]
    /\ mem[reg["sp"] + 36] = entry.reg["ra"]
    /\ entry.reg["s8"] # 0

\* C7: once control has left tinygo_scanCurrentStack, it is at the caller's
\* return address, the stack pointer has its value on entry, and $s0-$s8 and
\* $ra hold their values on entry.
C7_ReturnsNormally ==
    (entry.routine = "scanCurrentStack" /\ Left) =>
        /\ cpuPC = entry.reg["ra"]
        /\ reg["sp"] = entry.reg["sp"]
        /\ \A r \in CalleeSaved \cup {"ra"} : reg[r] = entry.reg[r]

\* C8: tinygo_longjmp continues at the address stored at offset 4 of the
\* frame $a0 points to, with the stack pointer stored at offset 0, with $a0
\* unchanged and non-zero, and not at the return address of its caller.
C8_Longjmp ==
    (entry.routine = "longjmp" /\ Left) =>
        /\ cpuPC = entry.mem[entry.reg["a0"] + 4]
        /\ reg["sp"] = entry.mem[entry.reg["a0"]]
        /\ reg["a0"] = entry.reg["a0"]
        /\ reg["a0"] # 0
        /\ cpuPC # entry.reg["ra"]
        /\ reg["ra"] = entry.reg["ra"]

\* tinygo_longjmp has resumed a frame whose stack pointer differs from the
\* caller's.
C8_Witness ==
    /\ entry.routine = "longjmp"
    /\ Left
    /\ cpuPC \in JumpPCs
    /\ reg["sp"] \in JumpSPs
    /\ reg["sp"] # entry.reg["sp"]

C10_NoYieldWhileLocked ==
    adcLock # 0 =>
        /\ running = adcLock
        /\ taskPC[adcLock] \in {"select", "start", "wait", "unlock"}
        /\ lockWaiters = <<>>

\* The holder of adcLock busy-waits for the conversion while another task is
\* Runnable.
C10_Witness ==
    /\ adcLock # 0
    /\ taskPC[adcLock] = "wait"
    /\ ~adcCS.ready
    /\ runqueue # <<>>
    /\ running = adcLock

(***************************************************************************)
(* Claims about package testing (checked under SpecTest)                   *)
(***************************************************************************)
\* C11: FailNow (and Fatal, which calls it) stops the test: no statement of
\* the test function is executed after the call.
C11_FailNowStops == ~(hist.stmt.valid /\ hist.stmt.inFn /\ hist.stmt.finished)

\* tRunner(t) is not executing (it has not been called, or it is returning).
Exited(t) ==
    \A i \in 1..Len(stack) :
        stack[i].kind = "tRunner" /\ stack[i].t = t => stack[i].phase = "exit"

\* The registrations called by the first j calls of runCleanup on t.
CalledIdx(t, j) == {tt[t].called[k].idx : k \in 1..j}

\* C12: every registered cleanup is called exactly once, the last added and
\* not yet called first, after the test function and all subtests completed;
\* one registered during the cleanups is called too; the list ends up empty.
C12_CleanupOrder ==
    \A t \in 1..Len(tt) :
        LET c == tt[t].called
        IN /\ \A j \in 1..Len(c) :
                /\ ~c[j].early
                /\ c[j].idx \in 1..c[j].nreg
                /\ c[j].idx \notin CalledIdx(t, j - 1)
                /\ \A i \in 1..c[j].nreg : i > c[j].idx => i \in CalledIdx(t, j - 1)
           /\ Exited(t) =>
                /\ tt[t].cleanups = <<>>
                /\ CalledIdx(t, Len(c)) = 1..tt[t].registered

\* TestCleanup has returned: cAdd (added last) ran first and registered cLate,
\* which ran next, and cStmt (added first) ran last.
C12_Witness ==
    \E t \in 1..Len(tt) :
        /\ tt[t].name = "TestCleanup" /\ Exited(t)
        /\ tt[t].registered = 3
        /\ Len(tt[t].called) = 3
        /\ tt[t].called[1].idx = 2 /\ tt[t].called[2].idx = 3 /\ tt[t].called[3].idx = 1

\* Test d is sub or a descendant of sub.
InSubtree(sub, d) == d = sub \/ IsAncestor(sub, d)

\* C13: T.Run returns false exactly when the subtest or one of its descendants
\* was marked failed, and returns true without running f (no subtest is
\* created) when the matcher filters the name out.
C13_RunResult ==
    hist.run.valid =>
        IF hist.run.name \in flag.skip
        THEN hist.run.result /\ hist.run.sub = 0
        ELSE /\ hist.run.sub # 0
             /\ hist.run.result <=>
                   ~\E d \in 1..Len(tt) : InSubtree(hist.run.sub, d) /\ tt[d].failed

\* M.Run has returned.
Exit == stack = <<>> /\ m.code # NoCode

\* C14: M.Run returns 2 and runs no test when -test.shuffle is neither off,
\* on nor an integer; otherwise 0 exactly when every executed test and
\* benchmark passed, and 1 when any failed (in any repetition).
C14_ExitCode ==
    Exit =>
        IF flag.shuffle \notin {Off, On} /\ ~ParseIntOk(flag.shuffle)
        THEN m.code = 2 /\ tt = <<>>
        ELSE m.code = (IF (\A t \in 2..Len(tt) : ~tt[t].failed) /\ m.bench # "fail"
                       THEN 0 ELSE 1)

\* C15: when a test's cleanups have run, every variable it called Setenv on
\* has the value (or the absence) it had before the test's first Setenv on it.
C15_EnvRestored ==
    (stack # <<>> /\ Top.kind = "tRunner" /\ Top.phase = "exit") =>
        \A p \in tt[Top.t].envFirst : env[p[1]] = p[2]

\* TestEnv set K1, which held "o", to "a" and then to "b"; its cleanups have
\* run and K1 holds "o" again.
C15_Witness ==
    /\ stack # <<>> /\ Top.kind = "tRunner" /\ Top.phase = "exit"
    /\ tt[Top.t].name = "TestEnv"
    /\ prog.env = <<S("Setenv", "K1", "a"), S("Setenv", "K1", "b")>>
    /\ tt[Top.t].envFirst = {<<"K1", EnvSet("o")>>}
    /\ Len(tt[Top.t].called) = 2
    /\ env["K1"] = EnvSet("o")

\* C16: without -test.v the text a test logged reaches os.Stdout, or the
\* buffer of another test on its way there, only if the test has failed.
C16_LogHidden ==
    \A t \in 1..Len(tt) :
        (\/ <<"log", t>> \in stdout
         \/ \E p \in 1..Len(tt) : p # t /\ <<"log", t>> \in tt[p].output)
        => (flag.verbose \/ tt[t].failed)

\* Without -test.v, TestLog passed and its text is still in its own buffer,
\* while the text of a failed test has been printed.
C16_Witness ==
    /\ Exit /\ ~flag.verbose
    /\ \E t \in 1..Len(tt) :
          /\ tt[t].name = "TestLog" /\ ~tt[t].failed /\ tt[t].parent = Root
          /\ <<"log", t>> \in tt[t].output
    /\ \E u \in 1..Len(tt) : <<"log", u>> \in stdout

(***************************************************************************)
(* Claim about ReadTemperature (checked under SpecTemp)                    *)
(***************************************************************************)
\* 1000 * (27 - (V - 0.706) / 0.001721) for V = 3.3 V * raw / 4096, rounded
\* down: 27000 - (825 * raw - 722944) * 15625 / 27536 in lowest terms.
IdealMillicelsius(raw) ==
    LET y == 825 * raw - 722944
        r == y % 27536
        q == (y - r) \div 27536
    IN 27000 - (q * 15625 + (r * 15625) \div 27536)

Abs(x) == IF x < 0 THEN -x ELSE x

\* C17: for every 12-bit sample ReadTemperature returns the temperature of
\* the sensor formula in milli-degrees Celsius, up to the rounding of the
\* fixed-point arithmetic (one unit, plus 0.1 % of the distance from 27 C for
\* the coefficient 581); no 32-bit overflow changes the result.
C17_Temperature ==
    temp.valid =>
        Abs(temp.millicelsius - IdealMillicelsius(adcRaw))
            <= 1 + Abs(IdealMillicelsius(adcRaw) - 27000) \div 1000

(***************************************************************************)
(* Claim about the USB interrupt handler (checked under SpecUSB)           *)
(***************************************************************************)
\* C18: handleUSBSetAddress leaves its loop after at most 3000 polls of the
\* ACK bit whatever the hardware reports (while it polls, the polls made and
\* the timeout left add up to 3000 and the timeout is positive), and each
\* endpoint loop of handleUSBIRQ that has completed has run 16 iterations.
C18_BoundedIRQ ==
    /\ usbSetAddr.polls <= 3000
    /\ usbPC = "setaddr" =>
          usbSetAddr.timeout >= 1 /\ usbSetAddr.polls + usbSetAddr.timeout = 3000
    /\ (usbPC = "in" \/ (usbPC = "reset" /\ "BUFF_STATUS" \in usbStatus)) =>
          usbIters.out = 16
    /\ (usbPC = "reset" /\ "BUFF_STATUS" \in usbStatus) => usbIters.in = 16

\* The ACK bit never read 1: handleUSBSetAddress returned after its 3000th
\* poll without setting the address, and both endpoint loops then completed.
C18_Witness ==
    /\ usbPC = "reset"
    /\ usbSetAddr.polls = 3000 /\ ~usbSetAddr.addressSet /\ usbSetAddr.timeout = 0
    /\ usbIters = [out |-> 16, in |-> 16]

\* C21: after sendUSBPacket(0, data, 0) with len(data) > 64 the first 64 bytes
\* are queued at once and every later chunk continues where the previous one
\* ended with 1..64 bytes, so each byte is queued once and in order; offset
\* stays within 0..len(data), is the number of bytes queued while it is
\* positive, and is 0 exactly when the last byte was queued, after which
\* nothing more is queued.
C21_EP0MultiPacket ==
    LET q == usbLog.queued
        n == usbLog.len
        done == IF q = <<>> THEN 0 ELSE q[Len(q)].start + q[Len(q)].count
    IN /\ usbEP0.offset \in 0..n
       /\ n > EndpointPacketSize =>
             /\ Len(q) >= 1
             /\ q[1] = [start |-> 0, count |-> EndpointPacketSize]
             /\ \A i \in 2..Len(q) :
                   /\ q[i].start = q[i-1].start + q[i-1].count
                   /\ q[i].count \in 1..EndpointPacketSize
             /\ done <= n
             /\ (usbEP0.offset > 0 => usbEP0.offset = done)
             /\ (usbEP0.offset = 0 <=> done = n)

\* A send of more than two packets has queued its third and last chunk, and a
\* later buffer-done interrupt has been handled.
C21_Witness ==
    /\ usbLog.len > 2 * EndpointPacketSize
    /\ Len(usbLog.queued) = 3
    /\ usbLog.queued[3].start = 2 * EndpointPacketSize
    /\ usbLog.queued[3].start + usbLog.queued[3].count = usbLog.len
    /\ usbEP0.offset = 0
    /\ usbPC = "in" /\ usbLog.setup = NoSetup /\ "SETUP_REQ" \notin usbStatus

\* The request was handled: its handler was called and returned true.
Handled(setup) ==
    IF setup.standard THEN setup.result
    ELSE setup.wIndex < NumSetupHandlers /\ setup.registered /\ setup.result

\* C22: right after the setup branch, endpoint 0 has been stalled in this
\* interrupt exactly when the request was not handled, and a stall leaves the
\* IN buffer control of endpoint 0 full with the stall bit set.
C22_StallIffUnhandled ==
    usbLog.setup.valid =>
        /\ usbLog.stalled <=> ~Handled(usbLog.setup)
        /\ usbLog.stalled => usbRegs.ep0In.full /\ usbRegs.ep0In.stall

\* A class request whose handler would return true is stalled because its
\* WIndex is outside usbSetupHandler.
C22_Witness ==
    /\ usbLog.setup.valid
    /\ ~usbLog.setup.standard
    /\ usbLog.setup.wIndex = NumSetupHandlers
    /\ usbLog.setup.result
    /\ usbLog.stalled

\* The pending interrupt bits in the order handleUSBIRQ tests them.
PendingInOrder ==
    SelectSeq(<<"SETUP_REQ", "BUFF_STATUS", "BUS_RESET">>,
              LAMBDA b : b \in usbStatus)

\* C23: when handleUSBIRQ returns from an interrupt with bus reset pending, the
\* bus-reset status is cleared, the device address is 0 and the OUT buffer of
\* endpoint 0 is armed (DATA1, available, length 0); the branches handled in an
\* interrupt are the pending ones in the order setup, buffer-done, bus-reset.
C23_BusReset ==
    /\ usbLog.order = SubSeq(PendingInOrder, 1, Len(usbLog.order))
    /\ usbPC = "idle" => usbLog.order = PendingInOrder
    /\ (usbPC = "idle" /\ "BUS_RESET" \in usbStatus) =>
          /\ "BUS_RESET" \notin usbRegs.sie
          /\ usbRegs.addr = 0
          /\ usbRegs.ep0Out = BufCtrl(0, TRUE, TRUE, FALSE, FALSE)

\* All three interrupts were pending, SET_ADDRESS set an address and endpoint 0
\* received a packet before the bus reset was handled.
C23_Witness ==
    /\ usbPC = "idle"
    /\ usbStatus = IntBits
    /\ usbLog.order = <<"SETUP_REQ", "BUFF_STATUS", "BUS_RESET">>
    /\ usbSetAddr.addressSet
    /\ usbEP0.data0

IsPrefix(p, q) == Len(p) <= Len(q) /\ \A i \in 1..Len(p) : p[i] = q[i]

\* C20: tasks are resumed in the order in which they were made Runnable: the
\* sequence of resumed tasks is a prefix of the sequence of tasks made
\* Runnable (so A, B, C made Runnable in that order resume in that order).
C20_FIFO == IsPrefix(schedLog.res, schedLog.enq)

\* Three different tasks were made Runnable one after the other and all three
\* have been resumed, in that order.
C20_Witness ==
    /\ Len(schedLog.res) = 3
    /\ schedLog.res = schedLog.enq
    /\ Cardinality({schedLog.res[i] : i \in 1..3}) = 3

====
